---- MODULE Spec2Model ----
(***************************************************************************)
(* Model of tensorflow_probability/python/glm/proximal_hessian.py:         *)
(* soft_threshold, _grad_neg_log_likelihood_and_fim,                       *)
(* minimize_sparse_one_step (the coordinate-descent sweep), minimize_sparse *)
(* (the outer driver), fit_sparse_one_step and fit_sparse.                 *)
(*                                                                         *)
(* Numbers.  A float is modelled as an exact rational <<n, d>> in lowest   *)
(* terms with d > 0, extended with the IEEE specials +inf = <<1, 0>>,      *)
(* -inf = <<-1, 0>> and NaN = <<0, 0>>.  Rounding is not modelled and      *)
(* zero is unsigned (a division by zero takes the sign of the numerator).  *)
(* An absent (None) argument is the empty tuple.                           *)
(***************************************************************************)
EXTENDS Integers, Sequences, FiniteSets, TLC

----------------------------------------------------------------------------
(* Extended rational arithmetic *)

None == <<>>

NaN == <<0, 0>>

PosInf == <<1, 0>>

NegInf == <<-1, 0>>

Zero == <<0, 1>>

One == <<1, 1>>

Two == <<2, 1>>

AbsInt(i) == IF i < 0 THEN -i ELSE i

SgnInt(i) == IF i < 0 THEN -1 ELSE IF i = 0 THEN 0 ELSE 1

RECURSIVE GCD(_, _)
GCD(a, b) == IF b = 0 THEN a ELSE GCD(b, a % b)

Norm(n, d) ==
  IF d = 0 THEN <<SgnInt(n), 0>>
  ELSE LET k == GCD(AbsInt(n), AbsInt(d))
       IN  <<(SgnInt(d) * n) \div k, AbsInt(d) \div k>>

Num(i) == <<i, 1>>

Rat(n, d) == Norm(n, d)

IsNaN(a) == a = NaN

IsInf(a) == a[2] = 0 /\ a[1] # 0

IsFinite(a) == a[2] # 0

Neg(a) == <<-a[1], a[2]>>

Add(a, b) ==
  IF IsNaN(a) \/ IsNaN(b) THEN NaN
  ELSE IF IsInf(a) THEN (IF IsInf(b) /\ b # a THEN NaN ELSE a)
  ELSE IF IsInf(b) THEN b
  ELSE LET k == GCD(a[2], b[2])
       IN  Norm(a[1] * (b[2] \div k) + b[1] * (a[2] \div k), (a[2] \div k) * b[2])

Sub(a, b) == Add(a, Neg(b))

\* Cross-cancelled before multiplying; a zero denominator makes the product
\* +-inf, or NaN when the numerators multiply to 0 (0 * inf, NaN * x).
Mul(a, b) ==
  IF a[2] = 0 \/ b[2] = 0 THEN <<SgnInt(a[1]) * SgnInt(b[1]), 0>>
  ELSE LET k1 == GCD(AbsInt(a[1]), b[2])
           k2 == GCD(AbsInt(b[1]), a[2])
       IN  Norm((a[1] \div k1) * (b[1] \div k2), (a[2] \div k2) * (b[2] \div k1))

Inv(a) ==
  IF IsNaN(a) THEN NaN
  ELSE IF a[1] = 0 THEN PosInf
  ELSE IF a[1] > 0 THEN <<a[2], a[1]>>
  ELSE <<-a[2], -a[1]>>

Div(a, b) == Mul(a, Inv(b))

\* a/b < c/d for b, d > 0, by comparing continued-fraction expansions (no products).
RECURSIVE LessFrac(_, _, _, _)
LessFrac(a, b, c, d) ==
  LET qa == a \div b
      qc == c \div d
      ra == a % b
      rc == c % d
  IN  IF qa # qc THEN qa < qc
      ELSE IF ra = 0 THEN rc > 0
      ELSE IF rc = 0 THEN FALSE
      ELSE LessFrac(d, rc, b, ra)

Less(a, b) ==
  IF IsNaN(a) \/ IsNaN(b) THEN FALSE
  ELSE IF a[2] = 0 \/ b[2] = 0
       THEN (IF a[2] = 0 /\ b[2] = 0 THEN a[1] < b[1] ELSE a = NegInf \/ b = PosInf)
  ELSE LessFrac(a[1], a[2], b[1], b[2])

Equal(a, b) == ~IsNaN(a) /\ ~IsNaN(b) /\ a = b

LessEq(a, b) == Less(a, b) \/ Equal(a, b)

Abs(a) == <<AbsInt(a[1]), a[2]>>

Square(a) == Mul(a, a)

\* tf.sign: (x > 0) - (x < 0), which is 0 on NaN.
Sign(a) == Num((IF Less(Zero, a) THEN 1 ELSE 0) - (IF Less(a, Zero) THEN 1 ELSE 0))

\* What tf.maximum yields when an operand is NaN depends on the kernel the
\* build selects (scalar comparison, SIMD max, fmax): NaN or the other operand.
MaximumOnNaN == {"nan", "other"}

Maximum(a, b, onnan) ==
  IF IsNaN(a) THEN (IF onnan = "nan" THEN NaN ELSE b)
  ELSE IF IsNaN(b) THEN (IF onnan = "nan" THEN NaN ELSE a)
  ELSE IF Less(a, b) THEN b ELSE a

----------------------------------------------------------------------------
(* Vectors (sequences of numbers) and matrices.  A matrix argument is a     *)
(* dense Tensor (its rows) or a SparseTensor (indices, values, dense_shape  *)
(* with 0-based, row-major sorted indices); is_sparse is its Python type.   *)

RECURSIVE SumSeq(_)
SumSeq(v) == IF v = <<>> THEN Zero ELSE Add(SumSeq(SubSeq(v, 1, Len(v) - 1)), v[Len(v)])

VAdd(u, v) == [i \in 1..Len(u) |-> Add(u[i], v[i])]

VSub(u, v) == [i \in 1..Len(u) |-> Sub(u[i], v[i])]

VMul(u, v) == [i \in 1..Len(u) |-> Mul(u[i], v[i])]

VDiv(u, v) == [i \in 1..Len(u) |-> Div(u[i], v[i])]

VScale(c, v) == [i \in 1..Len(v) |-> Mul(c, v[i])]

VNeg(v) == [i \in 1..Len(v) |-> Neg(v[i])]

Zeros(n) == [i \in 1..n |-> Zero]

Tensor(rows) ==
  [is_sparse |-> FALSE, dense_shape |-> <<Len(rows), Len(rows[1])>>, rows |-> rows,
   indices |-> <<>>, values |-> <<>>]

SparseTensor(indices, values, dense_shape) ==
  [is_sparse |-> TRUE, dense_shape |-> dense_shape, rows |-> <<>>,
   indices |-> indices, values |-> values]

NoMatrix ==
  [is_sparse |-> FALSE, dense_shape |-> <<0, 0>>, rows |-> <<>>, indices |-> <<>>, values |-> <<>>]

_is_sparse(x) == x.is_sparse

NumRows(m) == m.dense_shape[1]

NumCols(m) == m.dense_shape[2]

\* tf.matmul(x, y[..., newaxis], adjoint_a): every entry of a row (column) of x
\* is multiplied with its entry of y, zeros included.
tf_matmul(x, y, adjoint_a) ==
  IF adjoint_a
  THEN [j \in 1..NumCols(x) |-> SumSeq([i \in 1..NumRows(x) |-> Mul(x.rows[i][j], y[i])])]
  ELSE [i \in 1..NumRows(x) |-> SumSeq([j \in 1..NumCols(x) |-> Mul(x.rows[i][j], y[j])])]

\* Mutant: adjoint_a is ignored.
sparse_matmul_ignoring_adjoint(sp, y, adjoint_a) ==
  [r \in 1..sp.dense_shape[1] |->
     SumSeq([k \in 1..Len(sp.values) |->
               IF sp.indices[k][1] = r - 1
               THEN Mul(sp.values[k], y[sp.indices[k][2] + 1])
               ELSE Zero])]

\* tf.sparse_tensor_dense_matmul(sp, y[..., newaxis], adjoint_a): only the
\* stored entries of sp are multiplied and accumulated.
tf_sparse_tensor_dense_matmul(sp, y, adjoint_a) ==
  LET out == IF adjoint_a THEN 2 ELSE 1
      inn == IF adjoint_a THEN 1 ELSE 2
  IN  [r \in 1..sp.dense_shape[out] |->
         SumSeq([k \in 1..Len(sp.values) |->
                   IF sp.indices[k][out] = r - 1
                   THEN Mul(sp.values[k], y[sp.indices[k][inn] + 1])
                   ELSE Zero])]

_sparse_or_dense_matmul(sparse_or_dense_x, dense_y, adjoint_a) ==
  IF _is_sparse(sparse_or_dense_x)
  THEN tf_sparse_tensor_dense_matmul(sparse_or_dense_x, dense_y, adjoint_a)
  ELSE tf_matmul(sparse_or_dense_x, dense_y, adjoint_a)

_sparse_or_dense_matvecmul(m, v) == _sparse_or_dense_matmul(m, v, FALSE)

_sparse_or_dense_matvecmul_adjoint(m, v) == _sparse_or_dense_matmul(m, v, TRUE)

\* col_index is 0-based, as in the source.  Sparse: the slice [0, col_index]
\* of size [size, 1], reshaped to [size] and made dense with default 0.
_sparse_or_dense_matmul_onehot(m, col_index, size) ==
  IF _is_sparse(m)
  THEN [i \in 1..size |->
          SumSeq([k \in 1..Len(m.values) |->
                    IF m.indices[k] = <<i - 1, col_index>> THEN m.values[k] ELSE Zero])]
  ELSE [i \in 1..NumRows(m) |-> m.rows[i][col_index + 1]]

\* Mutant: the entries are summed without being squared.
inner_square_not_squared(v) == SumSeq(v)

\* The argument is always the dense column _sparse_or_dense_matmul_onehot returns.
_sparse_or_dense_inner_square(v) == SumSeq([i \in 1..Len(v) |-> Square(v[i])])

\* Mutant: the on_value is placed one position late.
one_hot_like_shifted(x, indices, on_value) ==
  [i \in 1..Len(x) |-> IF i = ((indices + 1) % Len(x)) + 1 THEN on_value ELSE Zero]

_one_hot_like(x, indices, on_value) ==
  [i \in 1..Len(x) |-> IF i = indices + 1 THEN on_value ELSE Zero]

----------------------------------------------------------------------------
(* None-aware reductions *)

_mul_ignoring_nones(a, b) == IF a = None THEN b ELSE IF b = None THEN a ELSE Mul(a, b)

_mul_or_none(a, b) == IF a = None \/ b = None THEN None ELSE Mul(a, b)

_add_ignoring_nones(a, b) == IF a = None THEN b ELSE IF b = None THEN a ELSE Add(a, b)

----------------------------------------------------------------------------
(* soft_threshold *)

\* Mutant: the magnitude is not taken, so negative inputs are clipped to 0.
soft_threshold_no_abs(x, threshold, onnan) ==
  Mul(Sign(x), Maximum(Sub(x, threshold), Zero, onnan))

\* Mutant: the sign is dropped, so the result is the shrunk magnitude.
soft_threshold_no_sign(x, threshold, onnan) ==
  Maximum(Sub(Abs(x), threshold), Zero, onnan)

\* Mutant: no shrinkage at all.
soft_threshold_identity(x, threshold, onnan) == x

soft_threshold(x, threshold, onnan) ==
  Mul(Sign(x), Maximum(Sub(Abs(x), threshold), Zero, onnan))

----------------------------------------------------------------------------
(* The model callable: linear_response |-> (mean, variance, grad_mean).      *)
(* "normal": identity link, unit variance.  "poisson_identity": Poisson     *)
(* response with identity link, variance = mean.  "gamma_inverse": Gamma    *)
(* response with inverse link, mean = 1 / linear_response, variance =       *)
(* mean^2, grad_mean = -mean^2 (1 / 0 is +inf).                             *)

Models == {"normal", "poisson_identity"}

model_call(model, linear_response) ==
  IF model = "gamma_inverse"
  THEN [mean      |-> [i \in 1..Len(linear_response) |-> Inv(linear_response[i])],
        variance  |-> [i \in 1..Len(linear_response) |-> Square(Inv(linear_response[i]))],
        grad_mean |-> [i \in 1..Len(linear_response) |-> Neg(Square(Inv(linear_response[i])))]]
  ELSE [mean      |-> linear_response,
        variance  |-> [i \in 1..Len(linear_response) |->
                         IF model = "normal" THEN One ELSE linear_response[i]],
        grad_mean |-> [i \in 1..Len(linear_response) |-> One]]

\* Elementwise operators broadcast an operand of length 1.
BroadcastTo(v, n) == IF Len(v) = n THEN v ELSE [i \in 1..n |-> v[1]]

_mask_if_invalid(is_valid, x, mask) == [i \in 1..Len(x) |-> IF is_valid[i] THEN x[i] ELSE mask]

_grad_neg_log_likelihood_and_fim(model_matrix, linear_response, response, model) ==
  LET m == model_call(model, linear_response)
      is_valid == [i \in 1..Len(linear_response) |->
                     /\ IsFinite(m.grad_mean[i])
                     /\ ~Equal(m.grad_mean[i], Zero)
                     /\ IsFinite(m.variance[i])
                     /\ Less(Zero, m.variance[i])]
      v == VDiv(VMul(VSub(BroadcastTo(response, Len(m.mean)), m.mean),
                     _mask_if_invalid(is_valid, m.grad_mean, One)),
                _mask_if_invalid(is_valid, m.variance, PosInf))
      grad_log_likelihood == _sparse_or_dense_matvecmul_adjoint(model_matrix, v)
      gm0 == _mask_if_invalid(is_valid, m.grad_mean, Zero)
      fim_middle == VDiv(VMul(gm0, gm0), _mask_if_invalid(is_valid, m.variance, PosInf))
  IN  [g |-> VNeg(grad_log_likelihood), h_middle |-> fim_middle, v |-> v, is_valid |-> is_valid]

----------------------------------------------------------------------------
(* The convergence test of minimize_sparse_one_step.  A tolerance is        *)
(* mant * 10^(-exp) with mant >= 0 a rational; the threshold                *)
(* tolerance * (1 + ||x_start||_2)^2 is irrational in general, so the       *)
(* comparison d < threshold is decided exactly, without computing the root: *)
(* with f = d / tolerance and s = ||x_start||^2,                            *)
(*   f < (1 + sqrt(s))^2  <=>  f - 1 - s < 0  \/  (f - 1 - s)^2 < 4 s.      *)

BelowOnePlusRootSquared(f, s) ==
  LET q == Sub(Sub(f, One), s)
  IN  \/ Less(q, Zero)
      \/ q = Zero /\ Less(Zero, s)
      \/ Less(Zero, q) /\ Less(q, Div(Mul(Num(4), s), q))

\* f * 10^k < (1 + sqrt(s))^2, scaling one decimal digit at a time.
RECURSIVE ScaledBelow(_, _, _)
ScaledBelow(f, k, s) ==
  IF ~BelowOnePlusRootSquared(f, s) THEN FALSE
  ELSE IF k = 0 THEN TRUE
  ELSE ScaledBelow(Mul(Num(10), f), k - 1, s)

\* tf.norm(x, ord=2) ** 2
norm_squared(x) == SumSeq([i \in 1..Len(x) |-> Square(x[i])])

small_delta(x_update_diff_norm_sq, tolerance, x_start) ==
  LET d == x_update_diff_norm_sq
      s == norm_squared(x_start)
  IN  IF IsNaN(d) \/ IsNaN(s) THEN FALSE
      ELSE IF IsInf(s) THEN Less(d, Mul(tolerance.mant, PosInf))
      ELSE IF IsInf(d) THEN d = NegInf /\ Less(Zero, tolerance.mant)
      ELSE IF tolerance.mant = Zero THEN Less(d, Zero)
      ELSE ScaledBelow(Div(d, tolerance.mant), tolerance.exp, s)

----------------------------------------------------------------------------
(* Bounds of the explored inputs *)

\* Precision of the exact arithmetic: a coordinate iteration is explored only
\* while the rationals it produces have denominators up to MaxDen.
MaxDen == 1024

MaxFullSweeps == 2

MaxIterations == 2

MaxSoft == 4

----------------------------------------------------------------------------
(* Inputs *)

NumVec(v) == [i \in 1..Len(v) |-> Num(v[i])]

NumMat(m) == [i \in 1..Len(m) |-> NumVec(m[i])]

ScenarioMatrix == Tensor(NumMat(<< <<1, 0>>, <<0, 1>>, <<1, 1>>, <<1, -1>> >>))

ScenarioResponse == NumVec(<<1, 1, 2, 0>>)

\* Correlated columns; an all-zero column; one coefficient with balanced
\* data; fewer samples than coefficients.
Problems ==
  { [model_matrix |-> Tensor(NumMat(<< <<1, 1>>, <<1, 0>>, <<0, 1>> >>)),
     response |-> NumVec(<<1, 2, 0>>)],
    [model_matrix |-> Tensor(NumMat(<< <<1, 0>>, <<1, 0>> >>)), response |-> NumVec(<<1, 1>>)],
    [model_matrix |-> Tensor(NumMat(<< <<1>>, <<1>> >>)), response |-> NumVec(<<1, -1>>)],
    [model_matrix |-> Tensor(NumMat(<< <<1, 1>> >>)), response |-> NumVec(<<1>>)] }

Starts(n) ==
  IF n = 1 THEN {NumVec(<<0>>), NumVec(<<-1>>)}
  ELSE {NumVec(<<0, 0>>), NumVec(<<1, 0>>), NumVec(<<-1, 1>>)}

\* 1e-10 and 1
Tolerances == {[mant |-> One, exp |-> 10], [mant |-> One, exp |-> 0]}

L1Values == {Zero, One, Num(100)}

L2Values == {None, One}

LearningRates == {None, Rat(1, 2)}

\* fit_sparse_one_step takes no maximum_iterations.
OneStepArgs ==
  UNION { [model_matrix : {p.model_matrix}, response : {p.response}, model : Models,
           model_coefficients_start : Starts(NumCols(p.model_matrix)),
           tolerance : {[mant |-> One, exp |-> 0]}, l1_regularizer : L1Values,
           l2_regularizer : {None}, maximum_full_sweeps : 0..MaxFullSweeps,
           learning_rate : {None}] : p \in Problems }

FitArgs ==
  UNION { [model_matrix : {p.model_matrix}, response : {p.response}, model : Models,
           model_coefficients_start : Starts(NumCols(p.model_matrix)),
           tolerance : Tolerances, l1_regularizer : L1Values, l2_regularizer : L2Values,
           maximum_iterations : 0..MaxIterations, maximum_full_sweeps : 0..MaxFullSweeps,
           learning_rate : LearningRates] : p \in Problems }

\* The end-to-end scenario and the same setup with no sweep budget.
ScenarioArgs ==
  [model_matrix : {ScenarioMatrix}, response : {ScenarioResponse}, model : {"normal"},
   model_coefficients_start : {Zeros(2)},
   tolerance : {[mant |-> One, exp |-> 10]},
   l1_regularizer : {Zero}, l2_regularizer : {None},
   maximum_iterations : {10}, maximum_full_sweeps : {0, 1},
   learning_rate : {None}]

\* SparseTensor encodings of model matrices: the all-zero-column matrix with
\* its nonzeros only and with every entry stored, and the correlated matrix
\* with its nonzeros only.
SparseProblems ==
  { [model_matrix |-> SparseTensor(<< <<0, 0>>, <<1, 0>> >>, NumVec(<<1, 1>>), <<2, 2>>),
     response |-> NumVec(<<1, 1>>)],
    [model_matrix |-> SparseTensor(<< <<0, 0>>, <<0, 1>>, <<1, 0>>, <<1, 1>> >>,
                                   NumVec(<<1, 0, 1, 0>>), <<2, 2>>),
     response |-> NumVec(<<1, 1>>)],
    [model_matrix |-> SparseTensor(<< <<0, 0>>, <<0, 1>>, <<1, 0>>, <<2, 1>> >>,
                                   NumVec(<<1, 1, 1, 1>>), <<3, 2>>),
     response |-> NumVec(<<1, 2, 0>>)] }

SparseFitArgs ==
  UNION { [model_matrix : {p.model_matrix}, response : {p.response}, model : {"normal"},
           model_coefficients_start : Starts(NumCols(p.model_matrix)),
           tolerance : {[mant |-> One, exp |-> 0]}, l1_regularizer : {Zero, One},
           l2_regularizer : {None}, maximum_iterations : 0..MaxIterations,
           maximum_full_sweeps : {1}, learning_rate : {None}] : p \in SparseProblems }

\* Calls of the exact-Hessian variant: a matrix with correlated columns, one
\* with orthogonal columns, and one whose Hessian is singular.
ExactHessianArgs ==
  [model_matrix : {Tensor(NumMat(<< <<1, 1>>, <<0, 1>> >>)), Tensor(NumMat(<< <<1, 0>>, <<0, 2>> >>)),
                   Tensor(NumMat(<< <<1, 0>>, <<0, 0>> >>))},
   response : {NumVec(<<1, 2>>)}, model : {"normal"},
   model_coefficients_start : Starts(2),
   tolerance : Tolerances, l1_regularizer : {Zero, One}, l2_regularizer : {None},
   maximum_iterations : 0..MaxIterations, maximum_full_sweeps : {1},
   learning_rate : {None}]

\* Calls with the inverse-link model, whose mean is infinite at linear
\* response 0.
InverseLinkArgs ==
  UNION { [model_matrix : {p.model_matrix}, response : {p.response}, model : {"gamma_inverse"},
           model_coefficients_start : Starts(NumCols(p.model_matrix)),
           tolerance : {[mant |-> One, exp |-> 0]}, l1_regularizer : {Zero, One},
           l2_regularizer : {None, One}, maximum_full_sweeps : {1},
           learning_rate : {None}] :
          p \in {q \in Problems : NumRows(q.model_matrix) >= NumCols(q.model_matrix)} }

\* Calls that pass no l1_regularizer (None).
AbsentL1Args ==
  UNION { [model_matrix : {p.model_matrix}, response : {p.response}, model : {"normal"},
           model_coefficients_start : Starts(NumCols(p.model_matrix)),
           tolerance : {[mant |-> One, exp |-> 0]}, l1_regularizer : {None},
           l2_regularizer : {None}, maximum_full_sweeps : 0..MaxFullSweeps,
           learning_rate : LearningRates] :
          p \in {q \in Problems : NumRows(q.model_matrix) >= NumCols(q.model_matrix)} }

\* Calls whose arguments disagree in shape: a response of length 1 or 2 for
\* three samples, one coefficient for two columns.
ShapeMismatchArgs ==
  [model_matrix : {Tensor(NumMat(<< <<1, 1>>, <<1, 0>>, <<0, 1>> >>))},
   response : {NumVec(<<1>>), NumVec(<<1, 2>>), NumVec(<<1, 2, 0>>)},
   model : {"normal"},
   model_coefficients_start : {NumVec(<<0>>), NumVec(<<0, 0>>)},
   tolerance : {[mant |-> One, exp |-> 0]}, l1_regularizer : {Zero, One},
   l2_regularizer : {None}, maximum_full_sweeps : {1},
   learning_rate : {None}]

SoftArgs == [x : {Rat(k, 2) : k \in -MaxSoft..MaxSoft}, threshold : {Rat(k, 2) : k \in -MaxSoft..MaxSoft}]

----------------------------------------------------------------------------
(* State *)

VARIABLES
  entry,                  \* the public function that was called
  args,                   \* its arguments
  pc,                     \* "call", "minimize_sparse_loop", "sweep_loop", "done", "error"
  outer_x_start,          \* minimize_sparse loop variable x_start
  converged,              \* minimize_sparse loop variable converged
  outer_iter,             \* minimize_sparse loop variable iter_
  g,                      \* gradient_unregularized_loss
  h_outer,                \* hessian_unregularized_loss_outer
  h_middle,               \* hessian_unregularized_loss_middle
  x_start,                \* x_start of the running minimize_sparse_one_step
  iter_,                  \* inner loop variable iter_
  x_update_diff_norm_sq,  \* inner loop variable
  x_update,               \* inner loop variable
  hess_matmul_x_update,   \* inner loop variable
  x_update_var,           \* the Variable holding x_update
  ret,                    \* what the last minimize_sparse_one_step returned
  result,                 \* what the called function returned
  calls,                  \* history: number of calls of minimize_sparse_one_step
  sweep_start,            \* history: x_update when the current sweep began
  step,                   \* history: the quantities of the last coordinate iteration
  l1_dominates,           \* history: l1 >= |second_deriv*w - gradient - hess_matmul_x_update| at every visit
  within_threshold,       \* history: second_deriv > 0 and |w_old + newton_step| <= threshold at every visit
  raised,                 \* the class of the exception that ended the call, "" when none
  other                   \* a second call running in the same process while this one runs

vars == <<entry, args, pc, outer_x_start, converged, outer_iter, g, h_outer, h_middle,
          x_start, iter_, x_update_diff_norm_sq, x_update, hess_matmul_x_update,
          x_update_var, ret, result, calls, sweep_start, step, l1_dominates, within_threshold, raised, other>>

NoStep ==
  [coord |-> -1, w_old |-> Zero, second_deriv |-> Zero, g_coord |-> Zero, grad_coord |-> Zero,
   hess_coord |-> Zero, newton_step |-> Zero, threshold |-> Zero, delta |-> Zero,
   updated |-> FALSE]

NoRet == [x |-> <<>>, is_converged |-> FALSE, iter |-> Zero]

\* No second call.
NoCall == [exists |-> FALSE, shares |-> FALSE]

Init ==
  /\ \/ entry = "fit_sparse" /\ args \in FitArgs \cup ScenarioArgs \cup SparseFitArgs
     \/ entry = "_fit_sparse_exact_hessian" /\ args \in ExactHessianArgs
     \/ entry = "fit_sparse_one_step" /\ args \in OneStepArgs \cup AbsentL1Args \cup ShapeMismatchArgs \cup InverseLinkArgs
     \/ entry = "soft_threshold" /\ args \in SoftArgs
  /\ pc = "call"
  /\ outer_x_start = <<>>
  /\ converged = FALSE
  /\ outer_iter = 0
  /\ g = <<>>
  /\ h_outer = NoMatrix
  /\ h_middle = <<>>
  /\ x_start = <<>>
  /\ iter_ = 0
  /\ x_update_diff_norm_sq = Zero
  /\ x_update = <<>>
  /\ hess_matmul_x_update = <<>>
  /\ x_update_var = <<>>
  /\ ret = NoRet
  /\ result = NoRet
  /\ calls = 0
  /\ sweep_start = <<>>
  /\ step = NoStep
  /\ l1_dominates = TRUE
  /\ within_threshold = TRUE
  /\ raised = ""
  /\ other = NoCall

----------------------------------------------------------------------------
(* minimize_sparse_one_step *)

dims == Len(x_start)

num_samples == NumRows(h_outer)

_hessian_diag_elt_with_l2(coord) ==
  LET unregularized_component ==
        Mul(h_middle[coord + 1],
            _sparse_or_dense_inner_square(
              _sparse_or_dense_matmul_onehot(h_outer, coord, num_samples)))
      l2_component == _mul_or_none(Two, args.l2_regularizer)
  IN  _add_ignoring_nones(unregularized_component, l2_component)

\* Mutant: the l2 term of the gradient is left out.
grad_loss_without_l2 == g

grad_loss_with_l2 ==
  IF args.l2_regularizer = None THEN g
  ELSE VAdd(g, VScale(Mul(Two, args.l2_regularizer), x_start))

\* Mutant: the iteration budget is off by one.
loop_cond_budget_off_by_one ==
  LET sweep_complete == iter_ > 0 /\ iter_ % dims = 0
      converged_ == sweep_complete /\ small_delta(x_update_diff_norm_sq, args.tolerance, x_start)
      allowed_more_iterations == iter_ <= args.maximum_full_sweeps * dims
  IN  allowed_more_iterations /\ ~converged_

\* Mutant: convergence is tested after every coordinate, not only at a sweep boundary.
loop_cond_any_iteration ==
  LET sweep_complete == iter_ > 0
      converged_ == sweep_complete /\ small_delta(x_update_diff_norm_sq, args.tolerance, x_start)
      allowed_more_iterations == iter_ < args.maximum_full_sweeps * dims
  IN  allowed_more_iterations /\ ~converged_

_loop_cond ==
  LET sweep_complete == iter_ > 0 /\ iter_ % dims = 0
      converged_ == sweep_complete /\ small_delta(x_update_diff_norm_sq, args.tolerance, x_start)
      allowed_more_iterations == iter_ < args.maximum_full_sweeps * dims
  IN  allowed_more_iterations /\ ~converged_

\* Mutant: the accumulator is never reset.
reset_never(coord, x_update_diff_norm_sq_) == x_update_diff_norm_sq_

\* Mutant: the accumulator is reset at the last coordinate of a sweep.
reset_at_sweep_end(coord, x_update_diff_norm_sq_) ==
  IF coord = dims - 1 THEN Zero ELSE x_update_diff_norm_sq_

\* x_update_diff_norm_sq is reset to zero at the beginning of each sweep.
reset_at_sweep_start(coord, x_update_diff_norm_sq_) ==
  IF coord = 0 THEN Zero ELSE x_update_diff_norm_sq_

\* The quantities one iteration of _loop_body computes from the current state,
\* up to the arguments of soft_threshold.
_loop_body ==
  LET coord == iter_ % dims
      diff0 == reset_at_sweep_start(coord, x_update_diff_norm_sq)
      w_old == Add(x_start[coord + 1], x_update[coord + 1])
      second_deriv == _hessian_diag_elt_with_l2(coord)
      grad_coord == grad_loss_with_l2[coord + 1]
      hess_coord == hess_matmul_x_update[coord + 1]
      newton_step == Div(Neg(_mul_ignoring_nones(args.learning_rate, Add(grad_coord, hess_coord))),
                         second_deriv)
      threshold == Div(_mul_ignoring_nones(args.learning_rate, args.l1_regularizer), second_deriv)
  IN  [coord |-> coord, diff0 |-> diff0, w_old |-> w_old, second_deriv |-> second_deriv,
       grad_coord |-> grad_coord, hess_coord |-> hess_coord, newton_step |-> newton_step,
       threshold |-> threshold]

\* delta, for each behaviour of tf.maximum on NaN the build may have.
_loop_body_delta(b) ==
  {Sub(soft_threshold(Add(b.w_old, b.newton_step), b.threshold, onnan), b.w_old) :
     onnan \in MaximumOnNaN}

\* Mutant: the accumulator grows by delta, not by its square.
_do_update_adds_delta(coord, delta, diff0) ==
  LET column == _sparse_or_dense_matmul_onehot(h_outer, coord, num_samples)
      hessian_column == _sparse_or_dense_matvecmul_adjoint(h_outer, VMul(h_middle, column))
      hessian_column_with_l2 ==
        IF args.l2_regularizer = None THEN hessian_column
        ELSE VAdd(hessian_column,
                  _one_hot_like(hessian_column, coord, Mul(Two, args.l2_regularizer)))
      changed_x_update_var ==
        [x_update_var EXCEPT ![coord + 1] = Add(x_update_var[coord + 1], delta)]
  IN  [x_update_diff_norm_sq |-> Add(diff0, delta),
       x_update |-> changed_x_update_var,
       hess_matmul_x_update |-> VAdd(hess_matmul_x_update, VScale(delta, hessian_column_with_l2))]

\* Mutant: a non-finite delta is not written to the Variable.
_do_update_finite_only(coord, delta, diff0) ==
  LET column == _sparse_or_dense_matmul_onehot(h_outer, coord, num_samples)
      hessian_column == _sparse_or_dense_matvecmul_adjoint(h_outer, VMul(h_middle, column))
      hessian_column_with_l2 ==
        IF args.l2_regularizer = None THEN hessian_column
        ELSE VAdd(hessian_column,
                  _one_hot_like(hessian_column, coord, Mul(Two, args.l2_regularizer)))
      changed_x_update_var ==
        IF IsFinite(delta)
        THEN [x_update_var EXCEPT ![coord + 1] = Add(x_update_var[coord + 1], delta)]
        ELSE x_update_var
  IN  [x_update_diff_norm_sq |-> Add(diff0, Square(delta)),
       x_update |-> changed_x_update_var,
       hess_matmul_x_update |-> VAdd(hess_matmul_x_update, VScale(delta, hessian_column_with_l2))]

\* The new loop variables of the branch smart_cond takes when delta != 0.
_do_update(coord, delta, diff0) ==
  LET column == _sparse_or_dense_matmul_onehot(h_outer, coord, num_samples)
      hessian_column == _sparse_or_dense_matvecmul_adjoint(h_outer, VMul(h_middle, column))
      hessian_column_with_l2 ==
        IF args.l2_regularizer = None THEN hessian_column
        ELSE VAdd(hessian_column,
                  _one_hot_like(hessian_column, coord, Mul(Two, args.l2_regularizer)))
      changed_x_update_var ==
        [x_update_var EXCEPT ![coord + 1] = Add(x_update_var[coord + 1], delta)]
  IN  [x_update_diff_norm_sq |-> Add(diff0, Square(delta)),
       x_update |-> changed_x_update_var,
       hess_matmul_x_update |-> VAdd(hess_matmul_x_update, VScale(delta, hessian_column_with_l2))]

\* The functions that run minimize_sparse.
MinimizeSparseEntries == {"fit_sparse", "_fit_sparse_exact_hessian"}

\* Mutant: a Variable of the right size keeps its content, tf.assign is left out.
EnterOneStep_keeps_buffer(g_, h_outer_, h_middle_, x_start_) ==
  /\ g' = g_
  /\ h_outer' = h_outer_
  /\ h_middle' = h_middle_
  /\ x_start' = x_start_
  /\ iter_' = 0
  /\ x_update_diff_norm_sq' = Zero
  /\ x_update_var' = IF Len(x_update_var) = Len(x_start_) THEN x_update_var
                     ELSE Zeros(Len(x_start_))
  /\ x_update' = x_update_var'
  /\ hess_matmul_x_update' = Zeros(Len(x_start_))
  /\ sweep_start' = Zeros(Len(x_start_))
  /\ calls' = calls + 1
  /\ pc' = "sweep_loop"

\* Entry of minimize_sparse_one_step up to the first evaluation of the loop
\* condition: x_update_var is zeroed by tf.assign and the loop variables start at 0.
EnterOneStep(g_, h_outer_, h_middle_, x_start_) ==
  /\ g' = g_
  /\ h_outer' = h_outer_
  /\ h_middle' = h_middle_
  /\ x_start' = x_start_
  /\ iter_' = 0
  /\ x_update_diff_norm_sq' = Zero
  /\ x_update_var' = Zeros(Len(x_start_))
  /\ x_update' = Zeros(Len(x_start_))
  /\ hess_matmul_x_update' = Zeros(Len(x_start_))
  /\ sweep_start' = Zeros(Len(x_start_))
  /\ calls' = calls + 1
  /\ pc' = "sweep_loop"

\* The shapes the matrix products and elementwise operators of the adapter
\* accept: the coefficients match the columns, and the response matches the
\* rows or has length 1 (it is then broadcast).
ShapesAgree ==
  /\ Len(args.model_coefficients_start) = NumCols(args.model_matrix)
  /\ Len(args.response) \in {NumRows(args.model_matrix), 1}

\* _loop_body divides _mul_ignoring_nones(learning_rate, l1_regularizer) by
\* second_deriv; tf.while_loop runs _loop_body once when the loop is built, and
\* None / Tensor raises TypeError.
LoopBodyBuilds == _mul_ignoring_nones(args.learning_rate, args.l1_regularizer) # None

\* The call ends with an exception before minimize_sparse_one_step has run.
FailCall(exception) ==
  /\ pc' = "error"
  /\ raised' = exception
  /\ UNCHANGED <<g, h_outer, h_middle, x_start, iter_, x_update_diff_norm_sq, x_update,
                 hess_matmul_x_update, x_update_var, sweep_start, calls>>

WithinPrecision(v) == \A i \in 1..Len(v) : v[i][2] <= MaxDen

\* One iteration of the inner while_loop.  Indexing h_middle (length N) with
\* coord fails with InvalidArgument when coord >= N.
SweepLoopBody ==
  /\ pc = "sweep_loop"
  /\ _loop_cond
  /\ IF iter_ % dims >= Len(h_middle)
     THEN /\ pc' = "error"
          /\ raised' = "InvalidArgumentError"
          /\ UNCHANGED <<iter_, x_update_diff_norm_sq, x_update, hess_matmul_x_update,
                         x_update_var, sweep_start, step, l1_dominates, within_threshold>>
     ELSE \E delta \in _loop_body_delta(_loop_body) :
            LET b == _loop_body
                updated == ~Equal(delta, Zero)
                u == _do_update(b.coord, delta, b.diff0)
            IN  /\ WithinPrecision(<<delta>>)
                /\ updated => WithinPrecision(u.x_update) /\ WithinPrecision(u.hess_matmul_x_update)
                /\ iter_' = iter_ + 1
                /\ x_update_diff_norm_sq' = IF updated THEN u.x_update_diff_norm_sq ELSE b.diff0
                /\ x_update' = IF updated THEN u.x_update ELSE x_update
                /\ x_update_var' = IF updated THEN u.x_update ELSE x_update_var
                /\ hess_matmul_x_update' =
                     IF updated THEN u.hess_matmul_x_update ELSE hess_matmul_x_update
                /\ sweep_start' = IF b.coord = 0 THEN x_update ELSE sweep_start
                /\ step' = [coord |-> b.coord, w_old |-> b.w_old,
                            second_deriv |-> b.second_deriv, g_coord |-> g[b.coord + 1],
                            grad_coord |-> b.grad_coord,
                            hess_coord |-> b.hess_coord, newton_step |-> b.newton_step,
                            threshold |-> b.threshold, delta |-> delta, updated |-> updated]
                /\ l1_dominates' =
                     (l1_dominates /\ args.l1_regularizer # None /\
                      LessEq(Abs(Sub(Sub(Mul(b.second_deriv, b.w_old), g[b.coord + 1]), b.hess_coord)),
                             args.l1_regularizer))
                /\ within_threshold' =
                     (/\ within_threshold
                      /\ IsFinite(b.second_deriv)
                      /\ Less(Zero, b.second_deriv)
                      /\ LessEq(Abs(Add(b.w_old, b.newton_step)), b.threshold))
                /\ pc' = "sweep_loop"
                /\ UNCHANGED raised
  /\ UNCHANGED <<entry, args, outer_x_start, converged, outer_iter, g, h_outer, h_middle,
                 x_start, ret, result, calls, other>>

\* The inner loop has ended: minimize_sparse_one_step returns
\* (x_start + x_update, converged, iter_ / dims), `/` being true division.
\* Under fit_sparse the value goes to the loop variables of minimize_sparse.
SweepReturn ==
  /\ pc = "sweep_loop"
  /\ ~_loop_cond
  /\ LET r == [x |-> VAdd(x_start, x_update),
               is_converged |-> small_delta(x_update_diff_norm_sq, args.tolerance, x_start),
               iter |-> Div(Num(iter_), Num(dims))]
     IN  /\ ret' = r
         /\ IF entry \in MinimizeSparseEntries
            THEN /\ outer_x_start' = r.x
                 /\ converged' = r.is_converged
                 /\ outer_iter' = outer_iter + 1
                 /\ pc' = "minimize_sparse_loop"
                 /\ UNCHANGED result
            ELSE /\ result' = r
                 /\ pc' = "done"
                 /\ UNCHANGED <<outer_x_start, converged, outer_iter>>
  /\ UNCHANGED <<entry, args, g, h_outer, h_middle, x_start, iter_, x_update_diff_norm_sq,
                 x_update, hess_matmul_x_update, x_update_var, calls, sweep_start, step,
                 l1_dominates, within_threshold, raised, other>>

----------------------------------------------------------------------------
(* minimize_sparse, fit_sparse, fit_sparse_one_step, soft_threshold *)

\* fit_sparse._grad_neg_log_likelihood_and_fim_fn
_grad_neg_log_likelihood_and_fim_fn(x) ==
  LET predicted_linear_response == _sparse_or_dense_matvecmul(args.model_matrix, x)
      gh == _grad_neg_log_likelihood_and_fim(args.model_matrix, predicted_linear_response,
                                             args.response, args.model)
  IN  [g |-> gh.g, h_outer |-> args.model_matrix, h_middle |-> gh.h_middle]

\* First and second derivative, with respect to the linear response, of
\* -model.log_prob(response, linear_response) for each sample.
neg_log_prob_derivatives(model, response, linear_response) ==
  [i \in 1..Len(linear_response) |->
     IF model = "normal"
     THEN <<Sub(linear_response[i], response[i]), One>>
     ELSE <<Sub(One, Div(response[i], linear_response[i])),
            Div(response[i], Square(linear_response[i]))>>]

\* tf.gradients(loss, [x])[0] with loss = _neg_log_likelihood(x)
grad_loss(x) ==
  LET eta == _sparse_or_dense_matvecmul(args.model_matrix, x)
      d == neg_log_prob_derivatives(args.model, args.response, eta)
  IN  _sparse_or_dense_matvecmul_adjoint(args.model_matrix, [i \in 1..Len(eta) |-> d[i][1]])

\* tf.hessians(loss, [x])[0]: the rows of Transpose(X) diag(d2) X
hessian_loss(x) ==
  LET X == args.model_matrix
      eta == _sparse_or_dense_matvecmul(X, x)
      d == neg_log_prob_derivatives(args.model, args.response, eta)
  IN  [j \in 1..NumCols(X) |->
         [k \in 1..NumCols(X) |->
            SumSeq([i \in 1..NumRows(X) |-> Mul(Mul(X.rows[i][j], d[i][2]), X.rows[i][k])])]]

IsSquare(n) == \E r \in 0..n : r * r = n

ISqrt(n) == CHOOSE r \in 0..n : r * r = n

\* The factorization is followed while its entries are rational.
HasRationalRoot(a) == IsFinite(a) /\ Less(Zero, a) /\ IsSquare(a[1]) /\ IsSquare(a[2])

Sqrt(a) == <<ISqrt(a[1]), ISqrt(a[2])>>

\* tf.cholesky: the lower-triangular L with L Transpose(L) = h, computed
\* column by column; pivot(j) is the number whose root is L[j][j].
RECURSIVE CholeskyEntry(_, _, _)
CholeskyEntry(h, i, j) ==
  IF j > i THEN Zero
  ELSE LET s == SumSeq([k \in 1..(j - 1) |-> Mul(CholeskyEntry(h, i, k), CholeskyEntry(h, j, k))])
       IN  IF i = j THEN Sqrt(Sub(h[i][i], s))
           ELSE Div(Sub(h[i][j], s), CholeskyEntry(h, j, j))

CholeskyPivot(h, j) ==
  Sub(h[j][j], SumSeq([k \in 1..(j - 1) |-> Square(CholeskyEntry(h, j, k))]))

\* The decomposition fails on a matrix that is not positive definite.
CholeskySucceeds(h) == \A j \in 1..Len(h) : IsFinite(CholeskyPivot(h, j)) /\ Less(Zero, CholeskyPivot(h, j))

CholeskyRational(h) == \A j \in 1..Len(h) : HasRationalRoot(CholeskyPivot(h, j))

\* The lower-triangular factor L, h = L Transpose(L).
tf_cholesky(h) == [i \in 1..Len(h) |-> [j \in 1..Len(h) |-> CholeskyEntry(h, i, j)]]

\* _fit_sparse_exact_hessian._grad_and_hessian_loss_fn
_grad_and_hessian_loss_fn(x) ==
  LET g_ == grad_loss(x)
  IN  [g |-> g_, h_outer |-> Tensor(tf_cholesky(hessian_loss(x))),
       h_middle |-> [i \in 1..Len(g_) |-> One]]

\* Mutant: the function is evaluated at the coefficients the fit started from.
grad_and_hessian_loss_fn_at_start(x) ==
  IF entry = "_fit_sparse_exact_hessian"
  THEN _grad_and_hessian_loss_fn(args.model_coefficients_start)
  ELSE _grad_neg_log_likelihood_and_fim_fn(args.model_coefficients_start)

\* The grad_and_hessian_loss_fn minimize_sparse was called with.
grad_and_hessian_loss_fn(x) ==
  IF entry = "_fit_sparse_exact_hessian" THEN _grad_and_hessian_loss_fn(x)
  ELSE _grad_neg_log_likelihood_and_fim_fn(x)

\* A call has created its x_update_var.
HasVar(call) == call.pc # "call" /\ call.raised # "ValueError"

\* tf.get_variable(name='x_update_var', ...) with x_update_var = None.  The
\* name is not scoped by tf.name_scope, so when another call has created the
\* variable the outcome is the one of the enclosing variable scope: ValueError
\* (reuse unset, the default), the existing variable (reuse = AUTO_REUSE), or a
\* new variable (the calls build separate graphs).
GetVariableOutcomes ==
  IF other.exists /\ HasVar(other) THEN {"raise", "reuse", "fresh"} ELSE {"create"}

\* fit_sparse calls minimize_sparse, which creates x_update_var (zeros) and
\* initialises the loop variables (x_start, converged = False, iter = 0);
\* building the while_loop runs the loop body once, with the matrix product of
\* the adapter and the threshold of the coordinate step.
CallFitSparse ==
  /\ pc = "call"
  /\ entry \in MinimizeSparseEntries
  /\ \E outcome \in GetVariableOutcomes :
       LET failure ==
             IF \/ outcome = "raise"
                \/ outcome = "reuse" /\
                     Len(other.x_update_var) # Len(args.model_coefficients_start)
             THEN "ValueError"
             ELSE IF ~ShapesAgree THEN "InvalidArgumentError"
             ELSE IF ~LoopBodyBuilds THEN "TypeError"
             ELSE ""
       IN  IF failure # ""
           THEN /\ FailCall(failure)
                /\ UNCHANGED <<outer_x_start, converged, outer_iter, other>>
           ELSE /\ x_update_var' = IF outcome = "reuse" THEN other.x_update_var
                                   ELSE Zeros(Len(args.model_coefficients_start))
                /\ other' = IF outcome = "reuse" THEN [other EXCEPT !.shares = TRUE] ELSE other
                /\ outer_x_start' = args.model_coefficients_start
                /\ converged' = FALSE
                /\ outer_iter' = 0
                /\ pc' = "minimize_sparse_loop"
                /\ UNCHANGED <<g, h_outer, h_middle, x_start, iter_, x_update_diff_norm_sq,
                               x_update, hess_matmul_x_update, calls, sweep_start, raised>>
  /\ UNCHANGED <<entry, args, ret, result, step, l1_dominates, within_threshold>>

\* Mutant: the outer budget is off by one.
minimize_sparse_loop_cond_off_by_one == outer_iter <= args.maximum_iterations /\ ~converged

minimize_sparse_loop_cond == outer_iter < args.maximum_iterations /\ ~converged

\* minimize_sparse._loop_body up to the call of minimize_sparse_one_step.
\* In the exact-Hessian variant tf.cholesky raises InvalidArgumentError when the
\* Hessian is not positive definite.
OuterLoopBody ==
  /\ pc = "minimize_sparse_loop"
  /\ minimize_sparse_loop_cond
  /\ IF entry = "_fit_sparse_exact_hessian" /\ ~CholeskySucceeds(hessian_loss(outer_x_start))
     THEN FailCall("InvalidArgumentError")
     ELSE /\ entry = "_fit_sparse_exact_hessian" => CholeskyRational(hessian_loss(outer_x_start))
          /\ LET t == grad_and_hessian_loss_fn(outer_x_start)
             IN  EnterOneStep(t.g, t.h_outer, t.h_middle, outer_x_start)
          /\ UNCHANGED raised
  /\ UNCHANGED <<entry, args, outer_x_start, converged, outer_iter, ret, result, step,
                 l1_dominates, within_threshold, other>>

\* The outer while_loop has ended: minimize_sparse returns its loop variables.
OuterReturn ==
  /\ pc = "minimize_sparse_loop"
  /\ ~minimize_sparse_loop_cond
  /\ result' = [x |-> outer_x_start, is_converged |-> converged, iter |-> Num(outer_iter)]
  /\ pc' = "done"
  /\ UNCHANGED <<entry, args, outer_x_start, converged, outer_iter, g, h_outer, h_middle,
                 x_start, iter_, x_update_diff_norm_sq, x_update, hess_matmul_x_update,
                 x_update_var, ret, calls, sweep_start, step, l1_dominates, within_threshold, raised, other>>

CallFitSparseOneStep ==
  /\ pc = "call"
  /\ entry = "fit_sparse_one_step"
  /\ IF ~ShapesAgree THEN FailCall("InvalidArgumentError")
     ELSE IF ~LoopBodyBuilds THEN FailCall("TypeError")
     ELSE /\ LET t == _grad_neg_log_likelihood_and_fim_fn(args.model_coefficients_start)
             IN  EnterOneStep(t.g, t.h_outer, t.h_middle, args.model_coefficients_start)
          /\ UNCHANGED raised
  /\ UNCHANGED <<entry, args, outer_x_start, converged, outer_iter, ret, result, step,
                 l1_dominates, within_threshold, other>>

CallSoftThreshold ==
  /\ pc = "call"
  /\ entry = "soft_threshold"
  /\ \E onnan \in MaximumOnNaN : result' = soft_threshold(args.x, args.threshold, onnan)
  /\ pc' = "done"
  /\ UNCHANGED <<entry, args, outer_x_start, converged, outer_iter, g, h_outer, h_middle,
                 x_start, iter_, x_update_diff_norm_sq, x_update, hess_matmul_x_update,
                 x_update_var, ret, calls, sweep_start, step, l1_dominates, within_threshold, raised, other>>

Next ==
  \/ CallFitSparse
  \/ OuterLoopBody
  \/ SweepLoopBody
  \/ SweepReturn
  \/ OuterReturn
  \/ CallFitSparseOneStep
  \/ CallSoftThreshold

Spec == Init /\ [][Next]_vars

-----------------------------------------------------------------------------
(* Two calls of fit_sparse in one process *)

\* Calls on different problems, each with x_update_var = None: two problems
\* with two coefficients and one with a single coefficient.
ConcurrentArgs ==
  { [model_matrix |-> p.model_matrix, response |-> p.response, model |-> "normal",
     model_coefficients_start |-> p.start, tolerance |-> [mant |-> One, exp |-> 10],
     l1_regularizer |-> Zero, l2_regularizer |-> None, maximum_iterations |-> 2,
     maximum_full_sweeps |-> 1, learning_rate |-> None] :
    p \in { [model_matrix |-> Tensor(NumMat(<< <<1, 1>>, <<1, 0>>, <<0, 1>> >>)),
             response |-> NumVec(<<1, 2, 0>>), start |-> NumVec(<<0, 0>>)],
            [model_matrix |-> Tensor(NumMat(<< <<1, 0>>, <<0, 1>> >>)),
             response |-> NumVec(<<1, -1>>), start |-> NumVec(<<1, 0>>)],
            [model_matrix |-> Tensor(NumMat(<< <<1>>, <<1>> >>)),
             response |-> NumVec(<<1, -1>>), start |-> NumVec(<<0>>)] } }

\* The state of the running call, as kept while the other call runs.
Context ==
  [exists |-> TRUE, shares |-> other.shares, entry |-> entry, args |-> args, pc |-> pc,
   outer_x_start |-> outer_x_start, converged |-> converged, outer_iter |-> outer_iter,
   g |-> g, h_outer |-> h_outer, h_middle |-> h_middle, x_start |-> x_start,
   iter_ |-> iter_, x_update_diff_norm_sq |-> x_update_diff_norm_sq, x_update |-> x_update,
   hess_matmul_x_update |-> hess_matmul_x_update, x_update_var |-> x_update_var,
   ret |-> ret, result |-> result, calls |-> calls, sweep_start |-> sweep_start,
   step |-> step, l1_dominates |-> l1_dominates, within_threshold |-> within_threshold,
   raised |-> raised]

\* A call of fit_sparse that has not started.
NewCall(a) ==
  [exists |-> TRUE, shares |-> FALSE, entry |-> "fit_sparse", args |-> a, pc |-> "call",
   outer_x_start |-> <<>>, converged |-> FALSE, outer_iter |-> 0,
   g |-> <<>>, h_outer |-> NoMatrix, h_middle |-> <<>>, x_start |-> <<>>,
   iter_ |-> 0, x_update_diff_norm_sq |-> Zero, x_update |-> <<>>,
   hess_matmul_x_update |-> <<>>, x_update_var |-> <<>>,
   ret |-> NoRet, result |-> NoRet, calls |-> 0, sweep_start |-> <<>>,
   step |-> NoStep, l1_dominates |-> TRUE, within_threshold |-> TRUE, raised |-> ""]

ConcurrentInit ==
  /\ entry = "fit_sparse"
  /\ args \in ConcurrentArgs
  /\ other \in {NewCall(a) : a \in ConcurrentArgs \ {args}}
  /\ pc = "call"
  /\ outer_x_start = <<>>
  /\ converged = FALSE
  /\ outer_iter = 0
  /\ g = <<>>
  /\ h_outer = NoMatrix
  /\ h_middle = <<>>
  /\ x_start = <<>>
  /\ iter_ = 0
  /\ x_update_diff_norm_sq = Zero
  /\ x_update = <<>>
  /\ hess_matmul_x_update = <<>>
  /\ x_update_var = <<>>
  /\ ret = NoRet
  /\ result = NoRet
  /\ calls = 0
  /\ sweep_start = <<>>
  /\ step = NoStep
  /\ l1_dominates = TRUE
  /\ within_threshold = TRUE
  /\ raised = ""

\* The scheduler runs the other call: the two calls exchange places.  Each
\* call's loop variables are its own; the content of a Variable both calls
\* hold stays where it is.
Switch ==
  /\ other.exists
  /\ other.pc \notin {"done", "error"}
  /\ entry' = other.entry
  /\ args' = other.args
  /\ pc' = other.pc
  /\ outer_x_start' = other.outer_x_start
  /\ converged' = other.converged
  /\ outer_iter' = other.outer_iter
  /\ g' = other.g
  /\ h_outer' = other.h_outer
  /\ h_middle' = other.h_middle
  /\ x_start' = other.x_start
  /\ iter_' = other.iter_
  /\ x_update_diff_norm_sq' = other.x_update_diff_norm_sq
  /\ x_update' = other.x_update
  /\ hess_matmul_x_update' = other.hess_matmul_x_update
  /\ x_update_var' = IF other.shares THEN x_update_var ELSE other.x_update_var
  /\ ret' = other.ret
  /\ result' = other.result
  /\ calls' = other.calls
  /\ sweep_start' = other.sweep_start
  /\ step' = other.step
  /\ l1_dominates' = other.l1_dominates
  /\ within_threshold' = other.within_threshold
  /\ raised' = other.raised
  /\ other' = Context

ConcurrentNext ==
  \/ CallFitSparse
  \/ OuterLoopBody
  \/ SweepLoopBody
  \/ SweepReturn
  \/ OuterReturn
  \/ Switch

ConcurrentSpec == ConcurrentInit /\ [][ConcurrentNext]_vars

----------------------------------------------------------------------------
(* Properties *)

\* The last call of minimize_sparse_one_step has returned (ret holds its value).
Returned == calls > 0 /\ pc \in {"minimize_sparse_loop", "done"}

convergence_threshold_met(d) == small_delta(d, args.tolerance, x_start)

DistSq(u, v) == SumSeq([i \in 1..Len(u) |-> Square(Sub(u[i], v[i]))])

IsScenario ==
  /\ entry = "fit_sparse"
  /\ args.model_matrix = ScenarioMatrix
  /\ args.response = ScenarioResponse
  /\ args.model = "normal"
  /\ args.model_coefficients_start = Zeros(2)
  /\ args.tolerance = [mant |-> One, exp |-> 10]
  /\ args.l1_regularizer = Zero
  /\ args.l2_regularizer = None
  /\ args.maximum_iterations = 10
  /\ args.maximum_full_sweeps = 1
  /\ args.learning_rate = None

\* x solves the normal equations Transpose(X) (y - X x) = 0.
IsLeastSquares(x) ==
  _sparse_or_dense_matvecmul_adjoint(
    args.model_matrix, VSub(args.response, _sparse_or_dense_matvecmul(args.model_matrix, x)))
  = Zeros(Len(x))

\* C1 as stated: the end-to-end scenario returns converged = true and the
\* coefficients [1, 0].
C1_AsStated ==
  (IsScenario /\ pc = "done") => (result.is_converged /\ result.x = NumVec(<<1, 0>>))

\* C1 (amended): the end-to-end scenario returns converged = true and the
\* ordinary least-squares solution, which is [1, 1].
C1_Scenario ==
  (IsScenario /\ pc = "done") =>
    /\ result.is_converged
    /\ result.x = NumVec(<<1, 1>>)
    /\ IsLeastSquares(result.x)

C1_Witness == IsScenario /\ pc = "done" /\ result.iter = Num(2)

\* The two points at which C2 says the inner loop stops.
StopPoint ==
  \/ iter_ > 0 /\ iter_ % dims = 0 /\ convergence_threshold_met(x_update_diff_norm_sq)
  \/ iter_ = args.maximum_full_sweeps * dims

\* C2 as stated: the inner loop is left exactly at a stop point (a sweep
\* boundary with a small update, or the exhausted budget), never in the middle
\* of a sweep, and no coordinate step runs at a stop point.
C2_StopsOnlyAtStopPoint ==
  [][pc = "sweep_loop" => ((pc' # "sweep_loop") <=> StopPoint)]_vars

\* C3: the convergence flag returned by minimize_sparse_one_step (with
\* maximum_full_sweeps >= 1) is true iff the squared distance between x_update
\* at the end and at the start of the last sweep is below
\* tolerance * (1 + ||x_start||)^2; at a sweep boundary x_update_diff_norm_sq
\* is that squared distance.
C3_ConvergedIffSmallSweep ==
  /\ (Returned /\ args.maximum_full_sweeps >= 1) =>
       (ret.is_converged <=> convergence_threshold_met(DistSq(x_update, sweep_start)))
  /\ (pc = "sweep_loop" /\ iter_ > 0 /\ iter_ % dims = 0) =>
       x_update_diff_norm_sq = DistSq(x_update, sweep_start)

C3_Witness ==
  /\ Returned
  /\ iter_ = 2 * dims
  /\ dims = 2
  /\ ret.is_converged
  /\ x_update_diff_norm_sq # Zero
  /\ sweep_start # Zeros(2)

\* C4: minimize_sparse returns with outer_iters <= maximum_iterations,
\* outer_iters equal to the number of calls of minimize_sparse_one_step, and
\* converged (as reported by the last call) or outer_iters =
\* maximum_iterations; an exhausted budget without convergence gives
\* converged = false and the coefficients of the last call, not an error.
C4_OuterLoop ==
  (entry = "fit_sparse" /\ pc = "done") =>
    /\ result.iter = Num(outer_iter)
    /\ outer_iter <= args.maximum_iterations
    /\ outer_iter = calls
    /\ result.is_converged \/ outer_iter = args.maximum_iterations
    /\ result.is_converged => (calls > 0 /\ ret.is_converged)
    /\ ~result.is_converged =>
         result.x = (IF calls = 0 THEN args.model_coefficients_start ELSE ret.x)

C4_Witness ==
  /\ entry = "fit_sparse"
  /\ pc = "done"
  /\ ~result.is_converged
  /\ outer_iter = 2
  /\ args.maximum_iterations = 2
  /\ result.x # args.model_coefficients_start

\* C5: with maximum_full_sweeps = 0, minimize_sparse_one_step runs no
\* coordinate step and returns iterations = 0, x = x_start and converged =
\* (0 < tolerance * (1 + ||x_start||)^2), i.e. true for a positive tolerance.
C5_NoSweepBudget ==
  (calls > 0 /\ args.maximum_full_sweeps = 0) =>
    /\ iter_ = 0
    /\ step.coord = -1
    /\ x_update = Zeros(dims)
    /\ pc # "error"
    /\ Returned =>
         /\ ret.iter = Zero
         /\ ret.x = x_start
         /\ ret.is_converged = Less(Zero, args.tolerance.mant)

C5_Witness ==
  /\ Returned
  /\ args.maximum_full_sweeps = 0
  /\ ret.is_converged
  /\ x_start # Zeros(dims)

C7_ReturnsCoordinateUpdates ==
  Returned =>
    /\ ret.iter = Num(iter_)
    /\ iter_ <= args.maximum_full_sweeps * dims

\* C8: for a threshold t >= 0, soft_threshold(x, t) is x - t when x > t,
\* x + t when x < -t and 0 whenever |x| <= t; so soft_threshold(x, 0) = x, the
\* result is 0 or has the sign of x, and its magnitude is max(|x| - t, 0).
C8_SoftThreshold ==
  (entry = "soft_threshold" /\ pc = "done" /\ LessEq(Zero, args.threshold)) =>
    LET x == args.x
        t == args.threshold
    IN  /\ Less(t, x) => result = Sub(x, t)
        /\ Less(x, Neg(t)) => result = Add(x, t)
        /\ LessEq(Abs(x), t) => result = Zero
        /\ t = Zero => result = x
        /\ result = Zero \/ Sign(result) = Sign(x)
        /\ Abs(result) = (IF Less(Zero, Sub(Abs(x), t)) THEN Sub(Abs(x), t) ELSE Zero)

C8_Witness ==
  /\ entry = "soft_threshold"
  /\ pc = "done"
  /\ Less(args.x, Neg(args.threshold))
  /\ Less(Zero, args.threshold)
  /\ result = Add(args.x, args.threshold)

ZeroGradientAtZero ==
  LET n == Len(args.model_coefficients_start)
  IN  _grad_neg_log_likelihood_and_fim_fn(Zeros(n)).g = Zeros(n)

\* C9 as stated: when l1 >= |second_deriv_j * w_j - gradient_j -
\* hess_matmul_x_update_j| at every visited coordinate and the loss has zero
\* gradient at zero, fit_sparse with maximum_iterations = 1 (one sweep) returns
\* the all-zero vector and converged = true.
C9_AsStated ==
  (/\ entry = "fit_sparse"
   /\ pc = "done"
   /\ args.maximum_iterations = 1
   /\ args.maximum_full_sweeps = 1
   /\ calls = 1
   /\ l1_dominates
   /\ ZeroGradientAtZero) =>
    (result.x = Zeros(dims) /\ result.is_converged)

\* C9 (amended): when at every visited coordinate second_deriv > 0 and
\* |w_old + newton_step| <= threshold, and the loss has zero gradient at zero,
\* fit_sparse with maximum_iterations = 1 returns the all-zero vector; after a
\* single sweep converged is true iff ||x_start||^2 < tolerance * (1 +
\* ||x_start||)^2 (so for x_start = 0), and with a second sweep allowed it is
\* true.
C9_Sparsity ==
  (/\ entry = "fit_sparse"
   /\ pc = "done"
   /\ args.maximum_iterations = 1
   /\ args.maximum_full_sweeps >= 1
   /\ calls = 1
   /\ within_threshold
   /\ ZeroGradientAtZero) =>
    /\ result.x = Zeros(dims)
    /\ args.maximum_full_sweeps = 1 =>
         (result.is_converged <=>
            small_delta(norm_squared(args.model_coefficients_start), args.tolerance,
                        args.model_coefficients_start))
    /\ args.model_coefficients_start = Zeros(dims) => result.is_converged
    /\ args.maximum_full_sweeps >= 2 => result.is_converged

C9_Witness ==
  /\ entry = "fit_sparse"
  /\ pc = "done"
  /\ args.maximum_iterations = 1
  /\ args.maximum_full_sweeps = 1
  /\ calls = 1
  /\ within_threshold
  /\ ZeroGradientAtZero
  /\ args.model_coefficients_start # Zeros(dims)
  /\ result.x = Zeros(dims)
  /\ ~result.is_converged

\* C10 as stated: with l1_regularizer = 0 and no l2 (and a positive second
\* derivative) the delta of a coordinate iteration is
\* -learning_rate * gradient[coord] / second_deriv.
C10_AsStated ==
  (/\ step.coord >= 0
   /\ args.l1_regularizer = Zero
   /\ args.l2_regularizer = None
   /\ IsFinite(step.second_deriv)
   /\ Less(Zero, step.second_deriv)) =>
    step.delta = Div(Neg(_mul_ignoring_nones(args.learning_rate, step.g_coord)), step.second_deriv)

\* C10 (amended): with l1_regularizer = 0, no l2, a positive second
\* derivative and finite gradient[coord] and hess_matmul_x_update[coord], the
\* delta of a coordinate iteration is -learning_rate *
\* (gradient[coord] + hess_matmul_x_update[coord]) / second_deriv, which is
\* -learning_rate * gradient[coord] / second_deriv while
\* hess_matmul_x_update[coord] = 0.
C10_NewtonStep ==
  (/\ step.coord >= 0
   /\ args.l1_regularizer = Zero
   /\ args.l2_regularizer = None
   /\ IsFinite(step.second_deriv)
   /\ Less(Zero, step.second_deriv)
   /\ IsFinite(step.g_coord)
   /\ IsFinite(step.hess_coord)) =>
    /\ step.delta =
         Div(Neg(_mul_ignoring_nones(args.learning_rate, Add(step.g_coord, step.hess_coord))),
             step.second_deriv)
    /\ step.hess_coord = Zero =>
         step.delta = Div(Neg(_mul_ignoring_nones(args.learning_rate, step.g_coord)),
                          step.second_deriv)

C10_Witness ==
  /\ step.coord = 1
  /\ args.l1_regularizer = Zero
  /\ args.l2_regularizer = None
  /\ args.learning_rate # None
  /\ Less(Zero, step.second_deriv)
  /\ IsFinite(step.hess_coord)
  /\ step.hess_coord # Zero
  /\ IsFinite(step.g_coord)
  /\ step.g_coord # Zero
  /\ step.delta # Zero

\* C11 as stated: the soft-threshold radius of a coordinate step is
\* learning_rate * l1_regularizer / second_deriv with an absent learning_rate
\* taken as 1 and an absent l1_regularizer taken as 0, and a call without
\* l1_regularizer does not fail.
C11_ThresholdRadius ==
  /\ step.coord >= 0 =>
       LET lr == IF args.learning_rate = None THEN One ELSE args.learning_rate
           l1 == IF args.l1_regularizer = None THEN Zero ELSE args.l1_regularizer
       IN  step.threshold = Div(Mul(lr, l1), step.second_deriv)
  /\ (entry = "fit_sparse_one_step" /\ args.l1_regularizer = None) => raised # "TypeError"

\* The dense Tensor holding the values of a SparseTensor.
DenseTwin(m) ==
  Tensor([i \in 1..NumRows(m) |->
            [j \in 1..NumCols(m) |->
               SumSeq([k \in 1..Len(m.values) |->
                         IF m.indices[k] = <<i - 1, j - 1>> THEN m.values[k] ELSE Zero])]])

FullyStored(m) == Len(m.values) = NumRows(m) * NumCols(m)

AllFinite(v) == \A i \in 1..Len(v) : IsFinite(v[i])

\* What the adapter and the coordinate step compute from the model matrix m
\* at the current state: the linear response and the gradient of an outer
\* iteration, and in the sweep the column, its sum of squares and the column of
\* the curvature matrix.
MatrixResults(m) ==
  [outer |->
     IF pc = "minimize_sparse_loop" /\ minimize_sparse_loop_cond
     THEN LET eta == _sparse_or_dense_matvecmul(m, outer_x_start)
          IN  <<eta, _grad_neg_log_likelihood_and_fim(m, eta, args.response, args.model).g>>
     ELSE <<>>,
   sweep |->
     IF pc = "sweep_loop" /\ iter_ % dims < Len(h_middle)
     THEN LET column == _sparse_or_dense_matmul_onehot(m, iter_ % dims, NumRows(m))
          IN  <<column, _sparse_or_dense_inner_square(column),
                _sparse_or_dense_matvecmul_adjoint(m, VMul(h_middle, column))>>
     ELSE <<>>]

Invalid(m, i) ==
  \/ ~IsFinite(m.grad_mean[i])
  \/ Equal(m.grad_mean[i], Zero)
  \/ ~IsFinite(m.variance[i])
  \/ LessEq(m.variance[i], Zero)

\* C13 as stated: in the gradient and curvature the adapter hands to the
\* sweep, every invalid sample has v[i] = 0 and fim_middle[i] = 0 whatever its
\* mean and response, so the gradient is the one of the valid rows alone;
\* valid samples have v[i] = (response[i] - mean[i]) * grad_mean[i] /
\* variance[i] and fim_middle[i] = grad_mean[i]^2 / variance[i]; no error is
\* raised.
C13_MaskedNotRaised ==
  (entry = "fit_sparse_one_step" /\ pc = "sweep_loop" /\ iter_ = 0) =>
    LET X == args.model_matrix
        eta == _sparse_or_dense_matvecmul(X, x_start)
        m == model_call(args.model, eta)
        y == BroadcastTo(args.response, Len(eta))
        r == _grad_neg_log_likelihood_and_fim(X, eta, args.response, args.model)
        valid == {i \in 1..Len(eta) : ~Invalid(m, i)}
    IN  /\ g = r.g
        /\ h_middle = r.h_middle
        /\ raised = ""
        /\ \A i \in 1..Len(eta) :
             IF i \in valid
             THEN /\ r.v[i] = Div(Mul(Sub(y[i], m.mean[i]), m.grad_mean[i]), m.variance[i])
                  /\ h_middle[i] = Div(Square(m.grad_mean[i]), m.variance[i])
             ELSE /\ r.v[i] = Zero
                  /\ h_middle[i] = Zero
        /\ g = [j \in 1..NumCols(X) |->
                  Neg(SumSeq([i \in 1..Len(eta) |->
                                IF i \in valid THEN Mul(X.rows[i][j], r.v[i]) ELSE Zero]))]

ShapeMismatch ==
  /\ entry = "fit_sparse_one_step"
  /\ \/ Len(args.response) # NumRows(args.model_matrix)
     \/ Len(args.model_coefficients_start) # NumCols(args.model_matrix)

\* C14 as stated: a call whose response length differs from the row count of
\* the matrix, or whose coefficient length differs from its column count, ends
\* in an InvalidArgument-class error before any coordinate iteration has run
\* and without x_update having been written.
C14_FailsFast ==
  (ShapeMismatch /\ pc # "call") =>
    /\ pc = "error"
    /\ raised = "InvalidArgumentError"
    /\ calls = 0
    /\ step.coord = -1
    /\ x_update_var = <<>>

\* Transpose(outer) diag(middle) outer, the curvature matrix the sweep uses.
CurvatureMatrix(outer, middle) ==
  [j \in 1..NumCols(outer) |->
     [k \in 1..NumCols(outer) |->
        SumSeq([i \in 1..NumRows(outer) |->
                  Mul(Mul(outer.rows[i][j], middle[i]), outer.rows[i][k])])]]

\* C15 as stated: in the exact-Hessian variant the factor and the all-ones
\* vector handed to the sweep satisfy Transpose(outer) diag(middle) outer =
\* Hessian of the negative log-likelihood at x_start.
C15_CurvatureContract ==
  (entry = "_fit_sparse_exact_hessian" /\ pc = "sweep_loop") =>
    CurvatureMatrix(h_outer, h_middle) = hessian_loss(x_start)

\* C16 as stated: two interleaved calls of fit_sparse, each with the default
\* x_update_var, share no state: neither ends in the error of a Variable that
\* already exists, neither holds the other's Variable, and the x_update a
\* running sweep carries is the content of its Variable.
C16_NoSharedState ==
  other.exists =>
    /\ raised # "ValueError"
    /\ other.raised # "ValueError"
    /\ ~other.shares
    /\ pc = "sweep_loop" => x_update = x_update_var

\* C17 as stated: a call of soft_threshold with a negative threshold ends in
\* an error instead of returning a value.
C17_RejectsNegativeThreshold ==
  (entry = "soft_threshold" /\ Less(args.threshold, Zero) /\ pc # "call") => pc = "error"

\* The last coordinate iteration of the running sweep had second_deriv = 0.
DegenerateStep == pc = "sweep_loop" /\ iter_ > 0 /\ step.second_deriv = Zero

RegularizedCurvature ==
  LET M == CurvatureMatrix(IF _is_sparse(h_outer) THEN DenseTwin(h_outer) ELSE h_outer,
                           h_middle)
  IN  [j \in 1..dims |->
         [k \in 1..dims |->
            IF args.l2_regularizer # None /\ j = k
            THEN Add(M[j][k], Mul(Two, args.l2_regularizer))
            ELSE M[j][k]]]

CurvatureColumn(j) == [i \in 1..dims |-> RegularizedCurvature[i][j + 1]]

CurvatureTimes(v) ==
  [i \in 1..dims |-> SumSeq([k \in 1..dims |-> Mul(RegularizedCurvature[i][k], v[k])])]

\* C19: at every iteration boundary of a sweep hess_matmul_x_update =
\* (Transpose(H) diag(h) H + 2 l2 I) x_update, the l2 term only when
\* l2_regularizer is given; an iteration that updates coordinate j with delta d
\* adds d times column j of that matrix, and a skipped one adds nothing.
C19_CurvatureProduct ==
  /\ [](pc = "sweep_loop" => hess_matmul_x_update = CurvatureTimes(x_update))
  /\ [][(pc = "sweep_loop" /\ pc' = "sweep_loop") =>
          hess_matmul_x_update' =
            IF step'.updated
            THEN VAdd(hess_matmul_x_update, VScale(step'.delta, CurvatureColumn(step'.coord)))
            ELSE hess_matmul_x_update]_vars

\* A sweep with an l2 term has updated both coordinates and the product is
\* not zero.
C19_Witness ==
  /\ pc = "sweep_loop"
  /\ dims = 2
  /\ iter_ = 2
  /\ args.l2_regularizer # None
  /\ \A i \in 1..dims : IsFinite(x_update[i]) /\ x_update[i] # Zero
  /\ \A i \in 1..dims : IsFinite(hess_matmul_x_update[i]) /\ hess_matmul_x_update[i] # Zero
  /\ RegularizedCurvature[1][2] # Zero

\* C20: within one call of minimize_sparse_one_step x_start is never modified;
\* x_update and x_update_var are all zeros when the call starts, also when the
\* Variable still holds the update of the previous outer iteration; the
\* loop-carried x_update is the content of x_update_var; every iteration adds
\* its delta to x_update[coord] and changes nothing else (so x_update is the sum
\* of the deltas applied in this call); the call returns x_start + x_update.
C20_SweepBuffers ==
  /\ [](pc = "sweep_loop" => x_update = x_update_var)
  /\ [][/\ pc = "sweep_loop" => x_start' = x_start
        /\ (pc # "sweep_loop" /\ pc' = "sweep_loop") =>
             /\ x_update' = Zeros(Len(x_start'))
             /\ x_update_var' = Zeros(Len(x_start'))
        /\ (pc = "sweep_loop" /\ pc' = "sweep_loop") =>
             x_update' =
               IF step'.updated
               THEN [x_update EXCEPT ![step'.coord + 1] = Add(@, step'.delta)]
               ELSE x_update
        /\ (pc = "sweep_loop" /\ pc' \in {"minimize_sparse_loop", "done"}) =>
             ret'.x = VAdd(x_start, x_update)]_vars

\* The second sweep of a fit updates a coordinate after the first one left a
\* nonzero update in the Variable.
C20_Witness ==
  /\ calls = 2
  /\ pc = "sweep_loop"
  /\ iter_ = 1
  /\ step.updated
  /\ IsFinite(step.delta)
  /\ x_update = [Zeros(dims) EXCEPT ![1] = step.delta]
  /\ ret.x # args.model_coefficients_start

ToDense(m) == IF _is_sparse(m) THEN DenseTwin(m) ELSE m

\* ||H[:,j]||^2 from the dense values of H.
ColumnSquaredNorm(j) ==
  SumSeq([i \in 1..NumRows(h_outer) |-> Square(ToDense(h_outer).rows[i][j + 1])])

\* An absent learning_rate is 1.
LearningRate == IF args.learning_rate = None THEN One ELSE args.learning_rate

\* The quantities of the coordinate step as the description gives them, from
\* the state before the iteration.
StatedSecondDeriv(j) ==
  LET unregularized == Mul(h_middle[j + 1], ColumnSquaredNorm(j))
  IN  IF args.l2_regularizer = None THEN unregularized
      ELSE Add(unregularized, Mul(Two, args.l2_regularizer))

StatedNewtonStep(j) ==
  LET grad == IF args.l2_regularizer = None THEN g[j + 1]
              ELSE Add(g[j + 1], Mul(Mul(Two, args.l2_regularizer), x_start[j + 1]))
  IN  Div(Neg(Mul(LearningRate, Add(grad, hess_matmul_x_update[j + 1]))), StatedSecondDeriv(j))

StatedThreshold(j) == Div(Mul(LearningRate, args.l1_regularizer), StatedSecondDeriv(j))

StatedDeltas(j) ==
  LET w_old == Add(x_start[j + 1], x_update[j + 1])
  IN  {Sub(soft_threshold(Add(w_old, StatedNewtonStep(j)), StatedThreshold(j), onnan), w_old) :
         onnan \in MaximumOnNaN}

\* One iteration of the sweep has run (l1_regularizer given).
CoordinateIteration ==
  pc = "sweep_loop" /\ pc' = "sweep_loop" /\ args.l1_regularizer # None

\* C21 as stated: every iteration visits coord = iter mod n and adds 1 to iter;
\* its delta is soft_threshold(w_old + newton_step, threshold) - w_old with the
\* stated second_deriv, newton_step and threshold; when delta != 0 it changes
\* x_update at coord only, by delta, and x_update_diff_norm_sq grows by delta^2.
C21_AsStated ==
  [][CoordinateIteration =>
       LET j == iter_ % dims
           d == step'.delta
       IN  /\ iter_' = iter_ + 1
           /\ step'.coord = j
           /\ d \in StatedDeltas(j)
           /\ ~Equal(d, Zero) =>
                /\ x_update' = [x_update EXCEPT ![j + 1] = Add(@, d)]
                /\ x_update_diff_norm_sq' = Add(x_update_diff_norm_sq, Square(d))]_vars

\* C21: as stated, except that x_update_diff_norm_sq becomes delta^2 plus its
\* previous value only when coord # 0; at coord = 0 it becomes delta^2 alone.
C21_CoordinateStep ==
  [][CoordinateIteration =>
       LET j == iter_ % dims
           d == step'.delta
       IN  /\ iter_' = iter_ + 1
           /\ step'.coord = j
           /\ d \in StatedDeltas(j)
           /\ ~Equal(d, Zero) =>
                /\ x_update' = [x_update EXCEPT ![j + 1] = Add(@, d)]
                /\ x_update_diff_norm_sq' =
                     Add(IF j = 0 THEN Zero ELSE x_update_diff_norm_sq, Square(d))]_vars

\* The second sweep has just updated coordinate 0, with l1, l2 and
\* learning_rate all taking part, after a first sweep that moved x_update.
C21_Witness ==
  /\ pc = "sweep_loop"
  /\ dims = 2
  /\ iter_ = dims + 1
  /\ step.updated
  /\ IsFinite(step.delta)
  /\ args.l1_regularizer \notin {None, Zero}
  /\ args.l2_regularizer # None
  /\ args.learning_rate # None
  /\ sweep_start # Zeros(dims)
  /\ x_update_diff_norm_sq = Square(step.delta)

\* An iteration of the sweep whose delta is exactly 0 has run.
SkippedIteration == pc = "sweep_loop" /\ pc' = "sweep_loop" /\ Equal(step'.delta, Zero)

\* C22 as stated: an iteration with delta = 0 only adds 1 to iter; x_update,
\* x_update_var, hess_matmul_x_update and x_update_diff_norm_sq keep their
\* values, at every coordinate index including 0.
C22_AsStated ==
  [][SkippedIteration =>
       /\ iter_' = iter_ + 1
       /\ x_update' = x_update
       /\ x_update_var' = x_update_var
       /\ hess_matmul_x_update' = hess_matmul_x_update
       /\ x_update_diff_norm_sq' = x_update_diff_norm_sq]_vars

\* C22: an iteration with delta = 0 adds 1 to iter and keeps x_update,
\* x_update_var and hess_matmul_x_update; x_update_diff_norm_sq keeps its value
\* when coord # 0 and becomes 0 when coord = 0.
C22_SkippedIteration ==
  [][SkippedIteration =>
       /\ iter_' = iter_ + 1
       /\ ~step'.updated
       /\ x_update' = x_update
       /\ x_update_var' = x_update_var
       /\ hess_matmul_x_update' = hess_matmul_x_update
       /\ x_update_diff_norm_sq' =
            IF iter_ % dims = 0 THEN Zero ELSE x_update_diff_norm_sq]_vars

\* The second sweep has skipped coordinate 0 after a first sweep that moved
\* x_update.
C22_Witness ==
  /\ pc = "sweep_loop"
  /\ dims = 2
  /\ iter_ = dims + 1
  /\ step.coord = 0
  /\ ~step.updated
  /\ step.delta = Zero
  /\ sweep_start # Zeros(dims)
  /\ x_update = sweep_start
  /\ x_update_diff_norm_sq = Zero

\* The sum of delta^2 over the iterations run since the last wrap of the
\* coordinate index: each of them moved its own coordinate of x_update by its
\* delta from the value held at the wrap.
MovedSinceWrap ==
  LET k == IF iter_ % dims = 0 THEN dims ELSE iter_ % dims
  IN  SumSeq([j \in 1..k |-> Square(Sub(x_update[j], sweep_start[j]))])

\* C23: in a sweep call every iteration at coord = 0 replaces
\* x_update_diff_norm_sq by 0 before its delta^2 is added, whatever the value
\* was, and every other iteration adds its delta^2; so in every state of the
\* sweep the accumulator is the sum of the squared movements of the current
\* sweep (x_update against x_update at the last wrap) and holds nothing of an
\* earlier sweep.
C23_AccumulatorReset ==
  /\ [](pc = "sweep_loop" =>
          x_update_diff_norm_sq =
            IF iter_ = 0 THEN Zero ELSE MovedSinceWrap)
  /\ [][(pc = "sweep_loop" /\ pc' = "sweep_loop") =>
          x_update_diff_norm_sq' =
            Add(IF iter_ % dims = 0 THEN Zero ELSE x_update_diff_norm_sq,
                Square(step'.delta))]_vars

\* A second sweep is complete; both sweeps moved, and the accumulator holds
\* the second sweep's movement, not the movement since the call began.
C23_Witness ==
  /\ pc = "sweep_loop"
  /\ dims = 2
  /\ iter_ = 2 * dims
  /\ sweep_start # Zeros(dims)
  /\ IsFinite(x_update_diff_norm_sq)
  /\ x_update_diff_norm_sq # Zero
  /\ x_update_diff_norm_sq = MovedSinceWrap
  /\ x_update_diff_norm_sq # DistSq(x_update, Zeros(dims))

\* The gradient and curvature of the fit at x: the adapter's triple under
\* fit_sparse, (gradient, Cholesky factor, ones) in the exact-Hessian variant.
CurvatureTripleAt(x) ==
  IF entry = "fit_sparse"
  THEN LET gh == _grad_neg_log_likelihood_and_fim(
                   args.model_matrix, _sparse_or_dense_matvecmul(args.model_matrix, x),
                   args.response, args.model)
       IN  <<gh.g, args.model_matrix, gh.h_middle>>
  ELSE LET t == _grad_and_hessian_loss_fn(x) IN <<t.g, t.h_outer, t.h_middle>>

\* What a step of a fit through minimize_sparse does to the curvature triple
\* and to the loop variables of minimize_sparse.
OuterIterationStep ==
  entry \in MinimizeSparseEntries =>
    /\ (pc = "minimize_sparse_loop" /\ pc' = "sweep_loop") =>
         /\ outer_x_start = IF calls = 0 THEN args.model_coefficients_start ELSE ret.x
         /\ <<g', h_outer', h_middle'>> = CurvatureTripleAt(outer_x_start)
         /\ x_start' = outer_x_start
         /\ calls' = calls + 1
    /\ pc = "sweep_loop" => <<g', h_outer', h_middle'>> = <<g, h_outer, h_middle>>
    /\ (pc = "sweep_loop" /\ pc' = "minimize_sparse_loop") =>
         /\ outer_x_start' = VAdd(x_start, x_update)
         /\ converged' = ret'.is_converged
         /\ outer_iter' = outer_iter + 1

\* C24: minimize_sparse evaluates the gradient/curvature function once per
\* iteration, before the sweep, at the x the previous sweep returned
\* (x_start in the first iteration); the sweep changes none of g, H, h; the
\* x, the convergence flag and the iteration count of the next iteration are
\* x_start + x_update, the sweep's flag and one more.  The number of sweeps
\* begun is the number of iterations begun.
C24_CurvatureRefresh ==
  /\ [](entry \in MinimizeSparseEntries =>
          /\ pc \in {"minimize_sparse_loop", "done"} => calls = outer_iter
          /\ pc = "sweep_loop" => calls = outer_iter + 1)
  /\ [][OuterIterationStep]_vars

\* The second iteration of a fit is in its sweep: the triple was evaluated at
\* the x the first sweep returned, which differs from the starting x, and the
\* gradient differs from the one at the start.
C24_Witness ==
  /\ entry = "fit_sparse"
  /\ pc = "sweep_loop"
  /\ calls = 2
  /\ outer_iter = 1
  /\ x_start = ret.x
  /\ x_start # args.model_coefficients_start
  /\ <<g, h_outer, h_middle>> = CurvatureTripleAt(x_start)
  /\ g # CurvatureTripleAt(args.model_coefficients_start)[1]
  /\ x_update # Zeros(dims)

\* The delta _loop_body computes for coordinate j from the current state.
RecomputedDeltas(j) ==
  LET w_old == Add(x_start[j + 1], x_update[j + 1])
      second_deriv == _hessian_diag_elt_with_l2(j)
      newton_step ==
        Div(Neg(_mul_ignoring_nones(args.learning_rate,
                                    Add(grad_loss_with_l2[j + 1], hess_matmul_x_update[j + 1]))),
            second_deriv)
      threshold == Div(_mul_ignoring_nones(args.learning_rate, args.l1_regularizer), second_deriv)
  IN  {Sub(soft_threshold(Add(w_old, newton_step), threshold, onnan), w_old) :
         onnan \in MaximumOnNaN}

\* Coordinate step.coord has just been updated, with learning_rate 1 or
\* absent, a positive second_deriv and finite quantities throughout.
JustUpdated ==
  /\ pc = "sweep_loop"
  /\ iter_ > 0
  /\ step.updated
  /\ args.learning_rate \in {None, One}
  /\ args.l1_regularizer # None
  /\ IsFinite(step.second_deriv)
  /\ Less(Zero, step.second_deriv)
  /\ IsFinite(step.delta)
  /\ AllFinite(g) /\ AllFinite(h_middle) /\ AllFinite(x_start)
  /\ AllFinite(x_update) /\ AllFinite(hess_matmul_x_update)

\* C25 as stated: at learning_rate 1 (or absent) with second_deriv > 0, the
\* delta recomputed for the coordinate just updated, from the resulting state
\* and before any other coordinate changes, is 0.
C25_Idempotent ==
  JustUpdated => RecomputedDeltas(step.coord) = {Zero}

====
